---- MODULE Spec2Model ----
(***************************************************************************)
(* Model of interfaces/sourcegen/sourcegen/csharp/_Config.py: the frozen   *)
(* dataclass Config and its factory Config.from_parsed.                    *)
(*                                                                         *)
(* Python values are modelled with their identity: a mapping is an object  *)
(* of the heap and a field holds a reference to it, so that aliasing and   *)
(* in-place updates are visible.                                           *)
(***************************************************************************)
EXTENDS Integers, Sequences, FiniteSets, TLC

VARIABLES
    heap,        \* the objects that have identity: heap[id] = [kind, items]
    classAttrs,  \* attributes of the class object Config
    insts,       \* the instances constructed so far: insts[i] is the instance's __dict__
    calls,       \* history: what the caller passed to the i-th from_parsed call
    written,     \* history: ids of the objects updated in place so far
    muts,        \* number of mutating operations attempted successfully so far
    reads,       \* reads[r]: the last read of reader r
    last         \* the last operation and its outcome

vars == <<heap, classAttrs, insts, calls, written, muts, reads, last>>

---------------------------------------------------------------------------
(* Bounds of the model *)

MaxInst == 2

MaxMut == 1

NReaders == 2

---------------------------------------------------------------------------
(* Python values *)

NoneV == [t |-> "None"]

IntV(n) == [t |-> "int", n |-> n]

StrV(s) == [t |-> "str", s |-> s]

Ref(id) == [t |-> "ref", id |-> id]

EmptyItems == [k \in {} |-> NoneV]

DictObj(items) == [kind |-> "dict", items |-> items]

\* d[k] = v on the items of a mapping
PutItem(items, k, v) ==
    [x \in DOMAIN items \cup {k} |-> IF x = k THEN v ELSE items[x]]

\* bool(v): None, 0, "" and empty containers are falsy
Truthy(h, v) ==
    CASE v.t = "None" -> FALSE
      [] v.t = "int"  -> v.n # 0
      [] v.t = "str"  -> v.s # ""
      [] v.t = "ref"  -> DOMAIN h[v.id].items # {}

\* what a holder of v sees: the object behind a reference, the value otherwise
Show(h, v) == IF v.t = "ref" THEN h[v.id] ELSE v

---------------------------------------------------------------------------
(* class Config *)

\* the class attribute ret_type_crosswalk, as written
ret_type_crosswalk ==
    (StrV("const char*") :> StrV("string"))
    @@ (StrV("const double*") :> StrV("double[]"))
    @@ (StrV("const int*") :> StrV("int[]"))
    @@ (StrV("size_t") :> StrV("nuint"))
    @@ (StrV("char*") :> StrV("byte*"))

\* the class attribute prop_type_crosswalk, as written
prop_type_crosswalk ==
    (StrV("byte*") :> StrV("string"))
    @@ (StrV("double*") :> StrV("double[]"))

\* the annotated attributes, in order: the fields of the dataclass and the
\* positional parameters of its generated __init__
FieldNames ==
    <<"class_crosswalk", "class_accessors", "derived_handles", "wrapper_classes">>

Fields == {FieldNames[i] : i \in 1..Len(FieldNames)}

\* the attributes without annotation: plain class attributes, no fields
ClassNames == {"ret_type_crosswalk", "prop_type_crosswalk"}

AttrNames == Fields \cup ClassNames

\* the heap ids of the two mappings built when the class body runs
RetId == 1

PropId == 2

\* attribute lookup on an instance: the instance's own __dict__, then the class
GetAttr(self, cattrs, name) ==
    IF name \in DOMAIN self THEN self[name] ELSE cattrs[name]

\* variant of DataclassInit: an __init__ that checks that every argument is a
\* mapping
DataclassInitChecked(h, pos) ==
    IF \A i \in 1..Len(pos) : pos[i].t = "ref" /\ h[pos[i].id].kind = "dict"
    THEN [exc |-> "none", heap |-> h,
          self |-> [f \in Fields |->
                      pos[CHOOSE i \in 1..Len(FieldNames) : FieldNames[i] = f]]]
    ELSE [exc |-> "TypeError", heap |-> h, self |-> [f \in {} |-> NoneV]]

\* the __init__ the decorator generates: stores its positional arguments
\* under the field names, with no check of their types
DataclassInit(h, pos) ==
    [exc |-> "none", heap |-> h,
     self |-> [f \in Fields |-> pos[CHOOSE i \in 1..Len(FieldNames) : FieldNames[i] = f]]]

\* variant of FrozenSetAttr: only the declared fields are protected
SetAttrFieldsOnly(self, name, value) ==
    IF name \in Fields
    THEN [exc |-> "FrozenInstanceError", self |-> self]
    ELSE [exc |-> "none",
          self |-> [a \in DOMAIN self \cup {name} |-> IF a = name THEN value ELSE self[a]]]

\* the __setattr__ the decorator generates for frozen=True
FrozenSetAttr(self, name, value) ==
    LET typeIsCls == TRUE   \* type(self) is cls: Config has no subclass here
    IN  IF typeIsCls \/ name \in Fields
        THEN [exc |-> "FrozenInstanceError", self |-> self]
        ELSE [exc |-> "none",
              self |-> [a \in DOMAIN self \cup {name} |-> IF a = name THEN value ELSE self[a]]]

\* the __delattr__ the decorator generates for frozen=True
FrozenDelAttr(self, name) ==
    LET typeIsCls == TRUE
    IN  IF typeIsCls \/ name \in Fields
        THEN [exc |-> "FrozenInstanceError", self |-> self]
        ELSE IF name \in DOMAIN self
             THEN [exc |-> "none", self |-> [a \in DOMAIN self \ {name} |-> self[a]]]
             ELSE [exc |-> "AttributeError", self |-> self]

\* a keyword left out of the call takes the parameter's default, None
Bind(kw, name) == IF name \in DOMAIN kw THEN kw[name] ELSE NoneV

\* variant of OrEmpty: `{} or v`, the operands exchanged
OrEmptyFlipped(h, v) ==
    [heap |-> Append(h, DictObj(EmptyItems)), val |-> v]

\* variant of OrEmpty: `v if v is not None else {}`, deciding by presence
OrEmptyIfNone(h, v) ==
    IF v # NoneV
    THEN [heap |-> h, val |-> v]
    ELSE [heap |-> Append(h, DictObj(EmptyItems)), val |-> Ref(Len(h) + 1)]

\* `v or {}`: v itself when truthy, else a dict display, a new object each time
OrEmpty(h, v) ==
    IF Truthy(h, v)
    THEN [heap |-> h, val |-> v]
    ELSE [heap |-> Append(h, DictObj(EmptyItems)), val |-> Ref(Len(h) + 1)]

\* variant of from_parsed: the entries of a supplied class_crosswalk are also
\* merged into the class's ret_type_crosswalk
from_parsed_merging(h, kw) ==
    LET a1 == OrEmpty(h, Bind(kw, "class_crosswalk"))
        a2 == OrEmpty(a1.heap, Bind(kw, "class_accessors"))
        a3 == OrEmpty(a2.heap, Bind(kw, "derived_handles"))
        a4 == OrEmpty(a3.heap, Bind(kw, "wrapper_classes"))
        src == a4.heap[a1.val.id].items
        merged == [k \in DOMAIN a4.heap[RetId].items \cup DOMAIN src |->
                      IF k \in DOMAIN src THEN src[k] ELSE a4.heap[RetId].items[k]]
    IN  DataclassInit([a4.heap EXCEPT ![RetId].items = merged],
                      <<a1.val, a2.val, a3.val, a4.val>>)

\* variant of from_parsed: one `{}` is created per call and stands in for
\* every empty argument
from_parsed_one_default(h, kw) ==
    LET h1 == Append(h, DictObj(EmptyItems))
        empty == Ref(Len(h) + 1)
        Or(v) == IF Truthy(h1, v) THEN v ELSE empty
    IN  DataclassInit(h1, <<Or(Bind(kw, "class_crosswalk")), Or(Bind(kw, "class_accessors")),
                            Or(Bind(kw, "derived_handles")), Or(Bind(kw, "wrapper_classes"))>>)

\* Config.from_parsed(**kw) on heap h
from_parsed(h, kw) ==
    LET a1 == OrEmpty(h, Bind(kw, "class_crosswalk"))
        a2 == OrEmpty(a1.heap, Bind(kw, "class_accessors"))
        a3 == OrEmpty(a2.heap, Bind(kw, "derived_handles"))
        a4 == OrEmpty(a3.heap, Bind(kw, "wrapper_classes"))
    IN  DataclassInit(a4.heap, <<a1.val, a2.val, a3.val, a4.val>>)

---------------------------------------------------------------------------
(* The caller of from_parsed: what it writes for each keyword *)

Omitted == [e |-> "omitted"]

Imm(v) == [e |-> "value", v |-> v]

Lit(kind, items) == [e |-> "literal", kind |-> kind, items |-> items]

WellFormed == StrV("Sol") :> StrV("Solution")

\* every kind of argument: absent, None, non-mappings (falsy and truthy, by
\* value and by reference), and mappings: empty, well-formed, with a value
\* or a key of the wrong type
AllExprs ==
    { Omitted, Imm(NoneV), Imm(IntV(0)), Imm(IntV(1)),
      Lit("list", EmptyItems), Lit("list", IntV(0) :> StrV("Sol")),
      Lit("dict", EmptyItems), Lit("dict", WellFormed),
      Lit("dict", StrV("Sol") :> IntV(7)), Lit("dict", IntV(7) :> StrV("Solution")) }

\* the calls of the life-cycle specification: no argument, class_crosswalk
\* alone, two of the four, all four; each argument given is a mapping
LifeCalls ==
    { [f \in Fields |-> IF f \in S THEN Lit("dict", WellFormed) ELSE Omitted] :
        S \in { {}, {"class_crosswalk"}, {"derived_handles", "wrapper_classes"}, Fields } }

\* the caller evaluates its keyword arguments left to right; a display
\* creates an object the caller keeps a reference to
RECURSIVE EvalArgs(_, _, _, _)
EvalArgs(h, exprs, i, kw) ==
    IF i > Len(FieldNames) THEN [heap |-> h, kw |-> kw]
    ELSE LET f == FieldNames[i]
             x == exprs[f]
         IN  CASE x.e = "omitted" -> EvalArgs(h, exprs, i + 1, kw)
               [] x.e = "value"   -> EvalArgs(h, exprs, i + 1, (f :> x.v) @@ kw)
               [] x.e = "literal" ->
                    EvalArgs(Append(h, [kind |-> x.kind, items |-> x.items]),
                             exprs, i + 1, (f :> Ref(Len(h) + 1)) @@ kw)

NoKw == [f \in {} |-> NoneV]

---------------------------------------------------------------------------
(* State machine *)

NoRead == [inst |-> 0, name |-> "", val |-> NoneV]

Init ==
    /\ heap = <<DictObj(ret_type_crosswalk), DictObj(prop_type_crosswalk)>>
    /\ classAttrs = [n \in ClassNames |->
                        IF n = "ret_type_crosswalk" THEN Ref(RetId) ELSE Ref(PropId)]
    /\ insts = <<>>
    /\ calls = <<>>
    /\ written = {}
    /\ muts = 0
    /\ reads = [r \in 1..NReaders |-> NoRead]
    /\ last = [op |-> "init", exc |-> "none"]

\* cfg = Config.from_parsed(...) with the keyword arguments exprs
FromParsed(exprs) ==
    /\ Len(calls) < MaxInst
    /\ LET ev == EvalArgs(heap, exprs, 1, NoKw)
           r  == from_parsed(ev.heap, ev.kw)
       IN  /\ heap' = r.heap
           /\ insts' = IF r.exc = "none" THEN Append(insts, r.self) ELSE insts
           /\ calls' = Append(calls, [exprs |-> exprs, kw |-> ev.kw,
                                      entry |-> Len(ev.heap)])
           /\ last' = [op |-> "from_parsed", exc |-> r.exc]
    /\ UNCHANGED <<classAttrs, written, muts, reads>>

\* cfg.name = value on an instance
SetAttr(i, name, value) ==
    /\ i \in 1..Len(insts)
    /\ LET r == FrozenSetAttr(insts[i], name, value)
       IN  /\ insts' = [insts EXCEPT ![i] = r.self]
           /\ last' = [op |-> "setattr", exc |-> r.exc]
    /\ UNCHANGED <<heap, classAttrs, calls, written, muts, reads>>

\* del cfg.name on an instance
DelAttr(i, name) ==
    /\ i \in 1..Len(insts)
    /\ LET r == FrozenDelAttr(insts[i], name)
       IN  /\ insts' = [insts EXCEPT ![i] = r.self]
           /\ last' = [op |-> "delattr", exc |-> r.exc]
    /\ UNCHANGED <<heap, classAttrs, calls, written, muts, reads>>

\* the keys and values of the in-place updates
MutKey == StrV("Sol")

MutVal == StrV("X")

\* d[MutKey] = MutVal on a mapping d that some holder reached: read from an
\* attribute of an instance or of the class, or kept by the caller
SetItem(id) ==
    /\ muts < MaxMut
    /\ id \in DOMAIN heap
    /\ heap[id].kind = "dict"
    /\ heap' = [heap EXCEPT ![id].items = PutItem(@, MutKey, MutVal)]
    /\ written' = written \cup {id}
    /\ muts' = muts + 1
    /\ last' = [op |-> "setitem", exc |-> "none"]
    /\ UNCHANGED <<classAttrs, insts, calls, reads>>

\* Config.name = None on the class object, which frozen=True does not protect
ClassSetAttr(name) ==
    /\ muts < MaxMut
    /\ classAttrs[name] # NoneV
    /\ classAttrs' = [classAttrs EXCEPT ![name] = NoneV]
    /\ muts' = muts + 1
    /\ last' = [op |-> "class_setattr", exc |-> "none"]
    /\ UNCHANGED <<heap, insts, calls, written, reads>>

\* variant of Read: a read that takes the entries out of the mapping it returns
ReadDraining(r, i, name) ==
    /\ i \in 1..Len(insts)
    /\ LET v == GetAttr(insts[i], classAttrs, name)
       IN  /\ reads' = [reads EXCEPT ![r] = [inst |-> i, name |-> name, val |-> v]]
           /\ heap' = IF v.t = "ref"
                      THEN [heap EXCEPT ![v.id].items = EmptyItems]
                      ELSE heap
    /\ last' = [op |-> "read", exc |-> "none"]
    /\ UNCHANGED <<classAttrs, insts, calls, written, muts>>

\* reader r evaluates cfg.name on instance i
Read(r, i, name) ==
    /\ i \in 1..Len(insts)
    /\ reads' = [reads EXCEPT ![r] =
                    [inst |-> i, name |-> name,
                     val |-> GetAttr(insts[i], classAttrs, name)]]
    /\ last' = [op |-> "read", exc |-> "none"]
    /\ UNCHANGED <<heap, classAttrs, insts, calls, written, muts>>

Construct == \E exprs \in LifeCalls : FromParsed(exprs)

Assign == \E i \in 1..MaxInst, name \in AttrNames : SetAttr(i, name, NoneV)

Delete == \E i \in 1..MaxInst, name \in AttrNames : DelAttr(i, name)

Update == \E id \in DOMAIN heap : SetItem(id)

Rebind == \E name \in ClassNames : ClassSetAttr(name)

Next == Construct \/ Assign \/ Delete \/ Update \/ Rebind

\* the life cycle of the class and its instances, with every holder's operations
Spec == Init /\ [][Next]_vars

\* the factory alone, as a function of its arguments: one call, from the
\* initial state, on every combination of the kinds of argument
CtorCall == \E exprs \in [Fields -> AllExprs] : insts = <<>> /\ calls = <<>> /\ FromParsed(exprs)

NextCtor == CtorCall

SpecCtor == Init /\ [][NextCtor]_vars

\* one instance shared by readers that only read
Share == \E exprs \in LifeCalls : calls = <<>> /\ FromParsed(exprs)

ReadAny == \E r \in 1..NReaders, name \in AttrNames : Read(r, 1, name)

NextReaders == Share \/ ReadAny

SpecReaders == Init /\ [][NextReaders]_vars

---------------------------------------------------------------------------
(* Vocabulary of the properties *)

\* the last operation was a from_parsed call
JustCalled == last.op = "from_parsed" /\ calls # <<>>

\* that call: what the caller wrote, the values it passed
TheCall == calls[Len(calls)]

\* the instance the call returned
Returned == insts[Len(insts)]

\* the caller's argument is non-empty (truthy)
NonEmptyExpr(x) ==
    \/ x.e = "literal" /\ DOMAIN x.items # {}
    \/ x.e = "value" /\ x.v.t = "int" /\ x.v.n # 0

\* the caller's argument is a non-empty mapping
MappingExpr(x) == x.e = "literal" /\ x.kind = "dict" /\ DOMAIN x.items # {}

\* what an attribute of the instance of call c shows right after construction
\* when nothing else has touched the class
AsConstructed(c, name) ==
    IF name = "ret_type_crosswalk" THEN DictObj(ret_type_crosswalk)
    ELSE IF name = "prop_type_crosswalk" THEN DictObj(prop_type_crosswalk)
    ELSE IF c.exprs[name].e = "omitted" THEN DictObj(EmptyItems)
    ELSE [kind |-> c.exprs[name].kind, items |-> c.exprs[name].items]

\* field f of instance i was defaulted: its argument was omitted
Defaulted(i, f) == calls[i].exprs[f].e = "omitted"

DefaultedFields == {p \in (1..Len(insts)) \X Fields : Defaulted(p[1], p[2])}

---------------------------------------------------------------------------
(* Properties *)

\* C1: whatever subset of the four arguments is omitted, the others being
\* non-empty mappings, the returned instance's omitted fields are each the
\* empty mapping and every other field is the supplied mapping, same keys and
\* same values.
C1_OmittedEmptySuppliedKept ==
    (JustCalled /\ \A f \in Fields :
                      TheCall.exprs[f] = Omitted \/ MappingExpr(TheCall.exprs[f]))
    => /\ Len(insts) = Len(calls)
       /\ \A f \in Fields :
            IF TheCall.exprs[f] = Omitted
            THEN Show(heap, Returned[f]) = DictObj(EmptyItems)
            ELSE /\ Returned[f] = TheCall.kw[f]
                 /\ Show(heap, Returned[f]) = DictObj(TheCall.exprs[f].items)

\* C1 witness: class_crosswalk={"Sol": "Solution"} alone was passed; the field
\* shows it and the three other fields show empty mappings.
C1_Witness ==
    /\ JustCalled
    /\ Len(insts) = Len(calls)
    /\ TheCall.exprs = [f \in Fields |-> IF f = "class_crosswalk"
                                         THEN Lit("dict", WellFormed) ELSE Omitted]
    /\ Show(heap, Returned["class_crosswalk"]) = DictObj(WellFormed)
    /\ \A f \in Fields \ {"class_crosswalk"} :
           Show(heap, Returned[f]) = DictObj(EmptyItems)

\* C2 (as stated): once an instance is constructed, no operation of any holder
\* changes what its four fields show.
C2_FieldsNeverChange ==
    [][\A i \in 1..Len(insts) : \A f \in Fields :
          Show(heap', GetAttr(insts'[i], classAttrs', f))
            = Show(heap, GetAttr(insts[i], classAttrs, f))]_vars

\* C3: assigning to or deleting any of the six attributes of an instance fails
\* with an error and leaves every attribute of every instance, and every
\* mapping, as it was.
C3_AssignDeleteRejected ==
    [][last'.op \in {"setattr", "delattr"}
       => /\ last'.exc = "FrozenInstanceError"
          /\ Len(insts') = Len(insts)
          /\ \A i \in 1..Len(insts) : \A name \in AttrNames :
                 /\ DOMAIN insts'[i] = DOMAIN insts[i]
                 /\ GetAttr(insts'[i], classAttrs', name)
                      = GetAttr(insts[i], classAttrs, name)
          /\ heap' = heap]_vars

\* C3 witness: an assignment was attempted on an instance and was rejected.
C3_Witness ==
    /\ last.op = "setattr"
    /\ last.exc = "FrozenInstanceError"
    /\ insts # <<>>

\* C4 (as stated): every instance from_parsed returns shows exactly the five
\* and the two entries written in the class body.
C4_FixedAsWritten ==
    (JustCalled /\ Len(insts) = Len(calls))
    => /\ Show(heap, GetAttr(Returned, classAttrs, "ret_type_crosswalk"))
            = DictObj(ret_type_crosswalk)
       /\ Show(heap, GetAttr(Returned, classAttrs, "prop_type_crosswalk"))
            = DictObj(prop_type_crosswalk)

\* C5 (as stated): in every reachable state, the two fixed mappings read from
\* any instance hold exactly their original entries.
C5_FixedNeverMutated ==
    \A i \in 1..Len(insts) :
       /\ Show(heap, GetAttr(insts[i], classAttrs, "ret_type_crosswalk"))
            = DictObj(ret_type_crosswalk)
       /\ Show(heap, GetAttr(insts[i], classAttrs, "prop_type_crosswalk"))
            = DictObj(prop_type_crosswalk)

\* C6: from_parsed raises nothing and returns an instance, whatever it is
\* given: absent, None, empty, well-formed or malformed; a non-empty argument
\* is stored unchecked.
C6_NoErrorNoValidation ==
    JustCalled
    => /\ last.exc = "none"
       /\ Len(insts) = Len(calls)
       /\ \A f \in Fields :
            NonEmptyExpr(TheCall.exprs[f]) => Returned[f] = TheCall.kw[f]

\* C6 witness: a call given a number, a list, a mapping with a value of the
\* wrong type and one with a key of the wrong type returned an instance.
C6_Witness ==
    /\ JustCalled
    /\ last.exc = "none"
    /\ Len(insts) = Len(calls)
    /\ TheCall.exprs["class_crosswalk"] = Imm(IntV(1))
    /\ TheCall.exprs["class_accessors"] = Lit("list", IntV(0) :> StrV("Sol"))
    /\ TheCall.exprs["derived_handles"] = Lit("dict", StrV("Sol") :> IntV(7))
    /\ TheCall.exprs["wrapper_classes"] = Lit("dict", IntV(7) :> StrV("Solution"))
    /\ Returned["class_crosswalk"] = IntV(1)

\* C7: a from_parsed call changes no object that existed before it, none of
\* the mappings passed to it, no attribute of the class and no earlier
\* instance; it adds one instance.
C7_FromParsedPure ==
    [][Len(calls') = Len(calls) + 1
       => /\ \A id \in DOMAIN heap : heap'[id] = heap[id]
          /\ classAttrs' = classAttrs
          /\ Len(insts') = Len(insts) + 1
          /\ \A i \in 1..Len(insts) : insts'[i] = insts[i]
          /\ LET c == calls'[Len(calls')]
             IN  \A f \in DOMAIN c.kw :
                    c.exprs[f].e = "literal"
                    => heap'[c.kw[f].id]
                         = [kind |-> c.exprs[f].kind, items |-> c.exprs[f].items]]_vars

\* C7 witness: a second call was given mappings after a mapping had been
\* updated in place; the first instance and the updated mapping are there.
C7_Witness ==
    /\ JustCalled
    /\ Len(insts) = 2
    /\ written # {}
    /\ MappingExpr(TheCall.exprs["class_crosswalk"])
    /\ heap[TheCall.kw["class_crosswalk"].id] = DictObj(WellFormed)

\* C8: readers that only read one shared instance get, for each attribute and
\* under every interleaving, what the attribute showed right after construction.
C8_ReadersAgree ==
    \A r \in 1..NReaders :
       reads[r].inst # 0
       => Show(heap, reads[r].val) = AsConstructed(calls[reads[r].inst], reads[r].name)

\* C8 witness: every reader has read, two of them the same supplied field.
C8_Witness ==
    /\ \A r \in 1..NReaders : reads[r].inst = 1
    /\ reads[1].name = "class_crosswalk"
    /\ reads[2].name = "class_crosswalk"
    /\ MappingExpr(calls[1].exprs["class_crosswalk"])
    /\ reads[1].val = reads[2].val

\* C9: a field holds the very value the caller supplied exactly when that value
\* is non-empty; otherwise (omitted, None, empty mapping, other empty value) it
\* holds an empty mapping created by the call, not the supplied value.
C9_DecidesByEmptiness ==
    (JustCalled /\ Len(insts) = Len(calls))
    => \A f \in Fields :
         IF NonEmptyExpr(TheCall.exprs[f])
         THEN Returned[f] = TheCall.kw[f]
         ELSE /\ Returned[f].t = "ref"
              /\ Returned[f].id > TheCall.entry
              /\ heap[Returned[f].id] = DictObj(EmptyItems)
              /\ f \in DOMAIN TheCall.kw => Returned[f] # TheCall.kw[f]

\* C9 witness: the caller supplied an empty mapping and the field holds
\* another one, while a non-empty mapping supplied in the same call is held
\* itself.
C9_Witness ==
    /\ JustCalled
    /\ Len(insts) = Len(calls)
    /\ TheCall.exprs["class_crosswalk"] = Lit("dict", EmptyItems)
    /\ Returned["class_crosswalk"] # TheCall.kw["class_crosswalk"]
    /\ heap[TheCall.kw["class_crosswalk"].id] = DictObj(EmptyItems)
    /\ TheCall.exprs["class_accessors"] = Lit("dict", WellFormed)
    /\ Returned["class_accessors"] = TheCall.kw["class_accessors"]

\* C10: the empty mappings substituted for omitted arguments are never
\* shared: each defaulted field of each instance holds a mapping object of its
\* own, so a defaulted mapping is empty unless it was itself updated in place.
C10_DefaultsNotShared ==
    /\ \A p \in DefaultedFields : \A q \in DefaultedFields :
          p # q => insts[p[1]][p[2]] # insts[q[1]][q[2]]
    /\ \A p \in DefaultedFields :
          /\ insts[p[1]][p[2]].t = "ref"
          /\ insts[p[1]][p[2]].id \notin written
             => heap[insts[p[1]][p[2]].id] = DictObj(EmptyItems)

\* C10 witness: an entry was added to the defaulted mapping of one field of
\* the first instance; another defaulted field of that instance and a
\* defaulted field of the second instance are empty.
C10_Witness ==
    /\ Len(insts) = 2
    /\ Defaulted(1, "class_accessors")
    /\ Defaulted(1, "derived_handles")
    /\ Defaulted(2, "class_accessors")
    /\ heap[insts[1]["class_accessors"].id] = DictObj(MutKey :> MutVal)
    /\ heap[insts[1]["derived_handles"].id] = DictObj(EmptyItems)
    /\ heap[insts[2]["class_accessors"].id] = DictObj(EmptyItems)

====
